---- MODULE Spec2Model ----
(***************************************************************************)
(* A model of i3's hand-written command parser (src/commands_parser.c):    *)
(* the capture stack, the state machine driver parse_command, the token    *)
(* matching rules and the error message.                                   *)
(*                                                                         *)
(* A C string is a sequence of one-character strings; the pointer walk is  *)
(* the 0-based offset (walk - input).  Offset Len(input) holds the         *)
(* terminating 0-byte; what lies behind it is not part of the object.      *)
(***************************************************************************)
EXTENDS Integers, Sequences, FiniteSets, TLC

(***************************************************************************)
(* Bounds of the model.                                                    *)
(***************************************************************************)
\* longest input drawn exhaustively from Alphabet
MaxLen == 3
\* number of parse_command calls in one run of the process
MaxCalls == 2
\* how far behind the terminator a runaway quote scan may come to a stop
MaxOverrun == 2

(***************************************************************************)
(* Program constants.                                                      *)
(***************************************************************************)
\* static struct stack_entry stack[10]
StackSize == 10

NUL == "\\0"
NULL == "NULL"
\* a char * that is NULL (a captured text is a sequence of characters)
NULLSTR == <<"NULL">>
\* json_output == NULL
JSON_NULL == <<>>

INITIAL == "INITIAL"
CALL == "__CALL"

(***************************************************************************)
(* Characters.                                                             *)
(***************************************************************************)
Upper == <<"A","B","C","D","E","F","G","H","I","J","K","L","M",
           "N","O","P","Q","R","S","T","U","V","W","X","Y","Z">>
Lower == <<"a","b","c","d","e","f","g","h","i","j","k","l","m",
           "n","o","p","q","r","s","t","u","v","w","x","y","z">>

\* tolower(3), as strncasecmp applies it to both sides
tolower(ch) ==
    IF \E i \in 1..26 : Upper[i] = ch
    THEN Lower[CHOOSE i \in 1..26 : Upper[i] = ch]
    ELSE ch

\* *(input + i): the character at offset i, the 0-byte at offset strlen(input)
At(in, i) == IF i >= 0 /\ i < Len(in) THEN in[i + 1] ELSE NUL

\* the characters at offsets from .. to-1
Slice(in, from, to) == [k \in 1..(to - from) |-> in[from + k]]

(***************************************************************************)
(* The capture stack (lines 68-120).                                       *)
(***************************************************************************)
EmptyEntry == [identifier |-> NULL, str |-> NULLSTR]

EmptyStack == [s \in 1..StackSize |-> EmptyEntry]

\* the search for a free slot run from the last slot down
FreeSlot_FromTop(stk) ==
    IF \E s \in 1..StackSize : stk[s].identifier = NULL
    THEN CHOOSE s \in 1..StackSize :
            /\ stk[s].identifier = NULL
            /\ \A r \in (s + 1)..StackSize : stk[r].identifier # NULL
    ELSE 0

\* the slot push_string stores into: the first one whose identifier is NULL
\* (0 when there is none)
FreeSlot(stk) ==
    IF \E s \in 1..StackSize : stk[s].identifier = NULL
    THEN CHOOSE s \in 1..StackSize :
            /\ stk[s].identifier = NULL
            /\ \A r \in 1..(s - 1) : stk[r].identifier # NULL
    ELSE 0

\* push_string without the exit of lines 95-96: a push on a full stack
\* returns as if it had stored the capture
StackFull_Never(stk) == FALSE

\* push_string returns normally only when a free slot exists
StackFull(stk) == FreeSlot(stk) = 0

push_string(stk, identifier, str) ==
    [stk EXCEPT ![FreeSlot(stk)] = [identifier |-> identifier, str |-> str]]

\* get_string on a given stack array: scan from slot 0, stop at the first
\* free slot, return the first entry whose identifier compares equal
Lookup(stk, identifier) ==
    LET live == {s \in 1..StackSize : \A r \in 1..s : stk[r].identifier # NULL}
        hits == {s \in live : stk[s].identifier = identifier}
    IN  IF hits = {} THEN NULLSTR
        ELSE stk[CHOOSE s \in hits : \A r \in hits : s <= r].str

\* clear_stack with its loop started at slot 1
clear_stack_SkipsFirst(stk) ==
    [s \in 1..StackSize |-> IF s = 1 THEN stk[s] ELSE EmptyEntry]

clear_stack(stk) == [s \in 1..StackSize |-> EmptyEntry]

\* the occupied slots of a stack array, in slot order
Occupied(stk) == {s \in 1..StackSize : stk[s].identifier # NULL}

(***************************************************************************)
(* The token table (GENERATED_tokens.h, generated from the command         *)
(* specification; typedef struct token, lines 46-59).  A token's name is   *)
(* a C string: a literal's name starts with a single quote.                *)
(***************************************************************************)
Lit(text) == <<"'">> \o text
NAME_STRING == <<"s","t","r","i","n","g">>
NAME_WORD == <<"w","o","r","d">>
NAME_END == <<"e","n","d">>

Token(name, identifier, next, call) ==
    [name |-> name, identifier |-> identifier, next_state |-> next,
     call_identifier |-> call]

\* the grammar of the specification's concrete scenario, and nothing else
G_MOVE ==
    [s \in {"INITIAL", "MOVE"} |->
        IF s = "INITIAL"
        THEN << Token(Lit(<<"m","o","v","e">>), NULL, "MOVE", 0) >>
        ELSE << Token(NAME_WORD, "direction", CALL, 0) >>]

\* the same grammar with the command boundary accepted in the initial state
G_MOVE_END ==
    [s \in {"INITIAL", "MOVE"} |->
        IF s = "INITIAL"
        THEN << Token(Lit(<<"m","o","v","e">>), NULL, "MOVE", 0),
                Token(NAME_END, NULL, "INITIAL", 0) >>
        ELSE << Token(NAME_WORD, "direction", CALL, 0) >>]

\* a grammar with one-letter keywords that uses every kind of token and of
\* transition: literals with and without identifier, a self-transition that
\* pushes, a return to INITIAL, string and word captures that dispatch, an
\* end token that dispatches
G_TEST ==
    [s \in {"INITIAL", "MOVE", "TITLE"} |->
        CASE s = "INITIAL" ->
                << Token(Lit(<<"m">>), NULL, "MOVE", 0),
                   Token(Lit(<<"t">>), NULL, "TITLE", 0),
                   Token(NAME_END, NULL, "INITIAL", 0) >>
          [] s = "MOVE" ->
                << Token(Lit(<<"x">>), "flag", "MOVE", 0),
                   Token(Lit(<<"m">>), NULL, "INITIAL", 0),
                   Token(NAME_WORD, "direction", CALL, 0),
                   Token(NAME_END, NULL, CALL, 2) >>
          [] s = "TITLE" ->
                << Token(NAME_STRING, "title", CALL, 1) >>]

\* a grammar whose word token pushes and stays in its state, so that one
\* command pushes the same identifier as often as it has words
G_LIST ==
    [s \in {"INITIAL", "LIST"} |->
        IF s = "INITIAL"
        THEN << Token(Lit(<<"m">>), NULL, "LIST", 0),
                Token(NAME_END, NULL, "INITIAL", 0) >>
        ELSE << Token(NAME_WORD, "direction", "LIST", 0),
                Token(NAME_END, NULL, CALL, 3) >>]

Grammars == {"MOVE", "MOVE_END", "TEST", "LIST"}

TokenTable(g) ==
    CASE g = "MOVE" -> G_MOVE
      [] g = "MOVE_END" -> G_MOVE_END
      [] g = "TEST" -> G_TEST
      [] g = "LIST" -> G_LIST

\* every identifier a token of the grammar can push
Identifiers == {"direction", "flag", "title"}

\* the value of the uninitialized locals token / str before their first
\* assignment (never read by the code)
NoToken == Token(<<>>, NULL, "INITIAL", 0)

IsLiteral(tok) == Len(tok.name) > 0 /\ tok.name[1] = "'"
IsCapture(tok) == tok.name = NAME_STRING \/ tok.name = NAME_WORD
IsEnd(tok) == tok.name = NAME_END

(***************************************************************************)
(* Token matching (lines 216-305).                                         *)
(***************************************************************************)
IsBlank(ch) == ch = " " \/ ch = "\t"

\* lines 218-219: skip whitespace before every token
RECURSIVE SkipWs(_, _)
SkipWs(in, w) == IF IsBlank(At(in, w)) THEN SkipWs(in, w + 1) ELSE w

\* line 232: strncasecmp(walk, name + 1, strlen(name) - 1) == 0
LiteralMatches(tok, in, w) ==
    LET text == Tail(tok.name)
    IN  \A k \in 1..Len(text) :
            tolower(At(in, w + k - 1)) = tolower(text[k])

\* the delimiters without the comma
IsDelimiter_NoComma(tok, ch) ==
    IF tok.name[1] = "s"
    THEN ch \in {";", NUL}
    ELSE ch \in {" ", "\t", "]", ";", NUL}

\* lines 259-260, 265-267: the delimiters of an unquoted string / word
IsDelimiter(tok, ch) ==
    IF tok.name[1] = "s"
    THEN ch \in {";", ",", NUL}
    ELSE ch \in {" ", "\t", "]", ",", ";", NUL}

\* the unquoted scan stopping one position late, on the character after the
\* delimiter
RECURSIVE ScanUnquoted_EatsDelimiter(_, _, _)
ScanUnquoted_EatsDelimiter(tok, in, w) ==
    IF IsDelimiter(tok, At(in, w))
    THEN (IF w < Len(in) THEN w + 1 ELSE w)
    ELSE ScanUnquoted_EatsDelimiter(tok, in, w + 1)

RECURSIVE ScanUnquoted(_, _, _)
ScanUnquoted(tok, in, w) ==
    IF IsDelimiter(tok, At(in, w)) THEN w ELSE ScanUnquoted(tok, in, w + 1)

\* lines 252-253: while (*walk != '"' || *(walk-1) == '\\') walk++;
\* as long as the scan stays inside the string.  The result is the offset of
\* the closing quote, or Len(in) + 1 when the scan has read the terminating
\* 0-byte without stopping and goes on behind it.
RECURSIVE ScanQuoted(_, _)
ScanQuoted(in, w) ==
    IF w > Len(in) THEN w
    ELSE IF At(in, w) # "\"" \/ At(in, w - 1) = "\\"
         THEN ScanQuoted(in, w + 1)
         ELSE w

\* line 288
EndMatches(in, w) == At(in, w) \in {NUL, ",", ";"}

\* What trying one token at offset w does: whether it matched (handled),
\* where walk is afterwards, the offset beginning, whether a capture is pushed
\* (push) and its text (val), and whether the scan ran behind the terminating
\* 0-byte (over; walk is then not determined by the input).
Outcome(handled, w, b, push, val, over) ==
    [handled |-> handled, walk |-> w, beginning |-> b, push |-> push,
     val |-> val, over |-> over]

\* lines 230-242: a literal
MatchLiteral(tok, in, w) ==
    IF LiteralMatches(tok, in, w)
    THEN Outcome(TRUE, w + Len(tok.name) - 1, w, tok.identifier # NULL,
                 Tail(tok.name), FALSE)
    ELSE Outcome(FALSE, w, w, FALSE, NULLSTR, FALSE)

\* lines 244-284: a string or a word
MatchCapture(tok, in, w) ==
    LET quoted == At(in, w) = "\""
        b == IF quoted THEN w + 1 ELSE w
        e == IF quoted THEN ScanQuoted(in, w + 1) ELSE ScanUnquoted(tok, in, w)
    IN  IF e > Len(in)
        THEN \* strncpy copies up to the terminating 0-byte
             Outcome(TRUE, e, b, tok.identifier # NULL,
                     Slice(in, b, Len(in)), TRUE)
        ELSE IF e # b
        THEN Outcome(TRUE, IF At(in, e) = "\"" THEN e + 1 ELSE e, b,
                     tok.identifier # NULL, Slice(in, b, e), FALSE)
        ELSE Outcome(FALSE, e, b, FALSE, NULLSTR, FALSE)

\* the end token without the walk++ of line 301: the separator stays where
\* it is
MatchEnd_KeepsSeparator(tok, in, w) ==
    IF EndMatches(in, w)
    THEN Outcome(TRUE, IF At(in, w) = NUL THEN w + 1 ELSE w, w, FALSE,
                 NULLSTR, FALSE)
    ELSE Outcome(FALSE, w, w, FALSE, NULLSTR, FALSE)

\* lines 286-304: the end token
MatchEnd(tok, in, w) ==
    IF EndMatches(in, w)
    THEN Outcome(TRUE, w + 1, w, FALSE, NULLSTR, FALSE)
    ELSE Outcome(FALSE, w, w, FALSE, NULLSTR, FALSE)

\* lines 226-304: the branches of the scan of the candidates
Match(tok, in, w) ==
    IF IsLiteral(tok) THEN MatchLiteral(tok, in, w)
    ELSE IF IsCapture(tok) THEN MatchCapture(tok, in, w)
    ELSE IF IsEnd(tok) THEN MatchEnd(tok, in, w)
    ELSE Outcome(FALSE, w, w, FALSE, NULLSTR, FALSE)

(***************************************************************************)
(* The dispatcher and the transition (lines 179-195).                      *)
(***************************************************************************)
\* GENERATED_call (GENERATED_call.h, generated from the command
\* specification): calls the handler of call_identifier, which reads its
\* parameters from the capture stack with get_string, returns the handler's
\* result and hands control back to the initial state.  The result payload is
\* the record of the call: the call identifier and the stack the handler saw.
GENERATED_call(call_identifier, stk) ==
    [output |-> << [call_identifier |-> call_identifier, stack |-> stk] >>,
     state |-> INITIAL]

\* next_state: the values of state, stack, json_output and the log of the
\* dispatches after the transition of token tok.  cmd is the list of the
\* captures pushed for the command in flight, kept with each call's record.
next_state(tok, st, stk, jo, log, cmd) ==
    IF tok.next_state = CALL
    THEN LET r == GENERATED_call(tok.call_identifier, stk)
         IN  [state |-> r.state,
              stack |-> clear_stack(stk),
              json_output |-> r.output,
              calls |-> Append(log, [call |-> r.output[1], command |-> cmd]),
              command |-> <<>>]
    ELSE [state |-> tok.next_state,
          stack |-> IF tok.next_state = INITIAL THEN clear_stack(stk) ELSE stk,
          json_output |-> jo,
          calls |-> log,
          command |-> IF tok.next_state = INITIAL THEN <<>> ELSE cmd]

(***************************************************************************)
(* The error message (lines 307-361).                                      *)
(***************************************************************************)
\* lines 322-336: 'text' for a literal, <name> for any other token
RenderToken(tok) ==
    IF IsLiteral(tok)
    THEN <<"'">> \o Tail(tok.name) \o <<"'">>
    ELSE <<"<">> \o tok.name \o <<">">>

\* lines 320-342: the rendered tokens, joined with ", "
RECURSIVE PossibleTokens(_, _)
PossibleTokens(toks, k) ==
    IF k > Len(toks) THEN <<>>
    ELSE RenderToken(toks[k])
         \o (IF k < Len(toks) THEN <<",", " ">> ELSE <<>>)
         \o PossibleTokens(toks, k + 1)

\* lines 349-352: as many characters as the input has, '^' from walk on
Position(in, w) == [k \in 1..Len(in) |-> IF k - 1 >= w THEN "^" ELSE " "]

NoError == [possible_tokens |-> <<>>, position |-> <<>>, printed |-> FALSE]

(***************************************************************************)
(* parse_command as a function of its input (lines 198-366), for a call    *)
(* that starts with the capture stack stk: the dispatches it performs and  *)
(* whether it ran without a failure.                                       *)
(***************************************************************************)
\* lines 225-305: the first candidate from index k on that matches at w; a
\* candidate that fails may have moved walk
RECURSIVE FirstMatch(_, _, _, _)
FirstMatch(toks, in, w, k) ==
    IF k > Len(toks) THEN [found |-> FALSE, walk |-> w]
    ELSE LET m == Match(toks[k], in, w)
         IN  IF m.handled
             THEN [found |-> TRUE, walk |-> m.walk, tok |-> toks[k], m |-> m]
             ELSE FirstMatch(toks, in, m.walk, k + 1)

\* lines 216-362: the main loop from offset w on.  accepted is FALSE when the
\* call fails to match, ends the process or reads behind the input.
RECURSIVE Run(_, _, _, _, _, _, _)
Run(table, in, w, st, stk, log, cmd) ==
    IF w > Len(in) THEN [accepted |-> TRUE, calls |-> log]
    ELSE LET f == FirstMatch(table[st], in, SkipWs(in, w), 1)
         IN  IF ~f.found \/ f.m.over \/ (f.m.push /\ StackFull(stk))
             THEN [accepted |-> FALSE, calls |-> log]
             ELSE LET stk1 == IF f.m.push
                              THEN push_string(stk, f.tok.identifier, f.m.val)
                              ELSE stk
                      cmd1 == IF f.m.push
                              THEN Append(cmd, [identifier |-> f.tok.identifier,
                                                str |-> f.m.val])
                              ELSE cmd
                      r == next_state(f.tok, st, stk1, JSON_NULL, log, cmd1)
                  IN  Run(table, in, f.walk, r.state, r.stack, r.calls,
                          r.command)

\* one call of parse_command that starts with an empty capture stack
Parse(table, in) == Run(table, in, 0, INITIAL, EmptyStack, <<>>, <<>>)

(***************************************************************************)
(* The inputs of parse_command.                                            *)
(***************************************************************************)
Alphabet == {"m", "x", "t", " ", ";", "\"", "\\"}

ShortInputs == UNION {[1..n -> Alphabet] : n \in 0..MaxLen}

\* m xxxxxxxxxxx: eleven captures in one command
IN_ELEVEN == <<"m", " ", "x", "x", "x", "x", "x", "x", "x", "x", "x", "x", "x">>
\* t "a\"b"
IN_ESCAPED == <<"t", " ", "\"", "a", "\\", "\"", "b", "\"">>
\* M X t
IN_UPPER == <<"M", " ", "X", " ", "t">>
\* m t;x
IN_THEN_BAD == <<"m", " ", "t", ";", "x">>
\* m x]
IN_BRACKET == <<"m", " ", "x", "]">>

\* m t]
IN_WORD_BRACKET == <<"m", " ", "t", "]">>

TestScenarios ==
    {IN_ELEVEN, IN_ESCAPED, IN_UPPER, IN_THEN_BAD, IN_BRACKET, IN_WORD_BRACKET}

\* complete commands of G_TEST: parsed on their own they dispatch and do
\* not fail
\* m t
CMD_WORD == <<"m", " ", "t">>
\* m x t
CMD_FLAG == <<"m", " ", "x", " ", "t">>
\* t x m
CMD_STRING == <<"t", " ", "x", " ", "m">>
\* t "m;x"
CMD_QUOTED == <<"t", " ", "\"", "m", ";", "x", "\"">>
\* mt,tx
CMD_TWO == <<"m", "t", ",", "t", "x">>
\* m x
CMD_END == <<"m", " ", "x">>

Commands == {CMD_WORD, CMD_FLAG, CMD_STRING, CMD_QUOTED, CMD_TWO, CMD_END}

\* cmd1; cmd2 for any two of them
Sequenced ==
    {} \cup {a \o <<";", " ">> \o b : a \in Commands, b \in Commands}

\* move left
IN_MOVE_LEFT == <<"m", "o", "v", "e", " ", "l", "e", "f", "t">>
\* mve left
IN_MVE_LEFT == <<"m", "v", "e", " ", "l", "e", "f", "t">>
\* move "far left"
IN_FAR_LEFT == <<"m", "o", "v", "e", " ", "\"", "f", "a", "r", " ", "l", "e", "f", "t", "\"">>
\* move left, move right
IN_LEFT_RIGHT == <<"m", "o", "v", "e", " ", "l", "e", "f", "t", ",", " ", "m", "o", "v", "e", " ", "r", "i", "g", "h", "t">>
\* MOVE Left;
IN_MOVE_UPPER == <<"M", "O", "V", "E", " ", "L", "e", "f", "t", ";">>

MoveScenarios ==
    {IN_MOVE_LEFT, IN_MVE_LEFT, IN_FAR_LEFT, IN_LEFT_RIGHT, IN_MOVE_UPPER}

\* m a b
IN_A_B == <<"m", " ", "a", " ", "b">>
\* m b
IN_ONE_B == <<"m", " ", "b">>
\* m a a,m b a
IN_A_A_B_A == <<"m", " ", "a", " ", "a", ",", "m", " ", "b", " ", "a">>
\* m
IN_NONE == <<"m">>
\* m a; b
IN_A_THEN_B == <<"m", " ", "a", ";", " ", "b">>

\* m a<tab>b
IN_A_TAB_B == <<"m", " ", "a", "\t", "b">>

ListScenarios ==
    {IN_A_B, IN_ONE_B, IN_A_A_B_A, IN_NONE, IN_A_THEN_B, IN_A_TAB_B}

\* what is parsed with G_TEST
TestInputs == {} \cup ShortInputs \cup TestScenarios \cup Sequenced

(***************************************************************************)
(* The state of the process.                                               *)
(***************************************************************************)
VARIABLES
    grammar,        \* which token table the binary was built with
    stack,          \* static struct stack_entry stack[10]
    state,          \* static cmdp_state state
    json_output,    \* static char *json_output
    input,          \* parse_command's argument
    walk,           \* const char *walk, as the offset walk - input
    c,              \* int c, the index of the candidate token
    token,          \* const cmdp_token *token
    token_handled,  \* bool token_handled
    beginning,      \* const char *beginning, as an offset
    str,            \* char *str, the text of the last capture
    pc,             \* where the process is
    calls,          \* the dispatches of the running call, in order
    command,        \* the captures pushed for the command in flight
    errormessage,   \* what the failure branch printed in the running call
    overrun,        \* the running call has read behind the terminating 0-byte
    ncalls,         \* parse_command calls that have returned
    suspended       \* the locals of a second invocation that is not running

globals == <<stack, state, json_output>>
locals == <<input, walk, c, token, token_handled, beginning, str>>
observed == <<calls, command, errormessage, overrun>>
vars == <<grammar, globals, locals, pc, observed, ncalls, suspended>>

\* the frame of the running invocation: its locals, its position and what it
\* has done so far
frame ==
    [input |-> input, walk |-> walk, c |-> c, token |-> token,
     token_handled |-> token_handled, beginning |-> beginning, str |-> str,
     pc |-> pc, calls |-> calls, command |-> command,
     errormessage |-> errormessage, overrun |-> overrun]

\* the frame of an invocation that has not been called
IdleFrame ==
    [input |-> <<>>, walk |-> 0, c |-> 0, token |-> NoToken,
     token_handled |-> FALSE, beginning |-> 0, str |-> NULLSTR,
     pc |-> "idle", calls |-> <<>>, command |-> <<>>,
     errormessage |-> NoError, overrun |-> FALSE]

tokens == TokenTable(grammar)

\* get_string, lines 101-110
get_string(identifier) == Lookup(stack, identifier)

Inputs ==
    CASE grammar = "TEST" -> TestInputs
      [] grammar = "LIST" -> ListScenarios
      [] OTHER -> MoveScenarios

Init ==
    /\ grammar \in Grammars
    /\ stack = EmptyStack
    /\ state = INITIAL
    /\ json_output = JSON_NULL
    /\ input = <<>>
    /\ walk = 0
    /\ c = 0
    /\ token = NoToken
    /\ token_handled = FALSE
    /\ beginning = 0
    /\ str = NULLSTR
    /\ pc = "idle"
    /\ calls = <<>>
    /\ command = <<>>
    /\ errormessage = NoError
    /\ overrun = FALSE
    /\ ncalls = 0
    /\ suspended = IdleFrame

(***************************************************************************)
(* parse_command (lines 198-366).                                          *)
(***************************************************************************)
\* lines 198-212: the entry of parse_command
ParseCommand(in) ==
    /\ state' = INITIAL
    /\ json_output' = JSON_NULL
    /\ input' = in
    /\ walk' = 0
    /\ pc' = "start"
    /\ UNCHANGED <<grammar, suspended, stack, c, token, token_handled, beginning, str,
                   observed, ncalls>>

\* lines 216-224: the loop condition, the whitespace skip and the start of
\* the scan of the candidates
LoopHead ==
    /\ pc \in {"start", "loop"}
    /\ IF walk <= Len(input)
       THEN /\ walk' = SkipWs(input, walk)
            /\ c' = 0
            /\ token_handled' = FALSE
            /\ pc' = "tokens"
       ELSE /\ pc' = "done"
            /\ UNCHANGED <<walk, c, token_handled>>
    /\ UNCHANGED <<grammar, suspended, globals, input, token, beginning, str, observed,
                   ncalls>>

\* A token has matched: push its capture (lines 234-235, 273-274), move the
\* cursor, take the transition, leave the scan of the candidates
\* (lines 236-239, 278-282, 290-302).  push_string on a full stack ends the
\* process (lines 95-96).
Handled(tok, doPush, val, newwalk) ==
    IF doPush /\ StackFull(stack)
    THEN /\ pc' = "exited"
         /\ UNCHANGED <<globals, walk, token_handled, calls, command>>
    ELSE LET stk1 == IF doPush THEN push_string(stack, tok.identifier, val)
                     ELSE stack
             cmd1 == IF doPush
                     THEN Append(command,
                                 [identifier |-> tok.identifier, str |-> val])
                     ELSE command
             r == next_state(tok, state, stk1, json_output, calls, cmd1)
         IN  /\ stack' = r.stack
             /\ state' = r.state
             /\ json_output' = r.json_output
             /\ calls' = r.calls
             /\ command' = r.command
             /\ walk' = newwalk
             /\ token_handled' = TRUE
             /\ pc' = "loop"

\* the scan of the candidates without its break: a candidate that matches is
\* passed over when a later candidate of the state matches as well
TryToken_LaterWins ==
    /\ pc = "tokens"
    /\ c < Len(tokens[state])
    /\ LET tok == tokens[state][c + 1]
           m == Match(tok, input, walk)
           later == \E j \in (c + 2)..Len(tokens[state]) :
                        Match(tokens[state][j], input, walk).handled
       IN  /\ token' = tok
           /\ beginning' = IF IsCapture(tok) THEN m.beginning ELSE beginning
           /\ overrun' = (overrun \/ m.over)
           /\ IF m.over
              THEN /\ pc' = "crashed"
                   /\ UNCHANGED <<globals, walk, c, token_handled, str,
                                  calls, command>>
              ELSE IF m.handled /\ ~later
              THEN /\ str' = IF IsCapture(tok) THEN m.val ELSE str
                   /\ Handled(tok, m.push, m.val, m.walk)
                   /\ UNCHANGED c
              ELSE /\ walk' = IF m.handled THEN walk ELSE m.walk
                   /\ c' = c + 1
                   /\ UNCHANGED <<globals, token_handled, str, pc, calls,
                                  command>>
    /\ UNCHANGED <<grammar, suspended, input, errormessage, ncalls>>

\* lines 225-305: one candidate of the current state is tried at the cursor
TryToken ==
    /\ pc = "tokens"
    /\ c < Len(tokens[state])
    /\ LET tok == tokens[state][c + 1]
           m == Match(tok, input, walk)
       IN  /\ token' = tok
           /\ beginning' = IF IsCapture(tok) THEN m.beginning ELSE beginning
           /\ overrun' = (overrun \/ m.over)
           /\ IF m.over
              THEN \* The scan for the closing quote has read the terminating
                   \* 0-byte and goes on in whatever lies behind the string:
                   \* the process faults, or the scan stops at a quote there.
                   \/ /\ pc' = "crashed"
                      /\ UNCHANGED <<globals, walk, c, token_handled, str,
                                     calls, command>>
                   \/ \E p \in (Len(input) + 1)..(Len(input) + MaxOverrun) :
                        /\ str' = m.val
                        /\ Handled(tok, m.push, m.val, p + 1)
                        /\ UNCHANGED c
              ELSE IF m.handled
              THEN /\ str' = IF IsCapture(tok) THEN m.val ELSE str
                   /\ Handled(tok, m.push, m.val, m.walk)
                   /\ UNCHANGED c
              ELSE \* not matched: go on with the next candidate (line 225)
                   /\ walk' = m.walk
                   /\ c' = c + 1
                   /\ UNCHANGED <<globals, token_handled, str, pc, calls,
                                  command>>
    /\ UNCHANGED <<grammar, suspended, input, errormessage, ncalls>>

\* the failure branch without its break: print the message, skip one
\* character and go on parsing
NoTokenHandled_Resync ==
    /\ pc = "tokens"
    /\ c = Len(tokens[state])
    /\ errormessage' = [possible_tokens |-> PossibleTokens(tokens[state], 1),
                        position |-> Position(input, walk),
                        printed |-> TRUE]
    /\ walk' = walk + 1
    /\ pc' = "loop"
    /\ UNCHANGED <<grammar, suspended, globals, input, c, token, token_handled, beginning,
                   str, calls, command, overrun, ncalls>>

\* lines 307-361: no candidate matched; print the message and leave the loop
NoTokenHandled ==
    /\ pc = "tokens"
    /\ c = Len(tokens[state])
    /\ errormessage' = [possible_tokens |-> PossibleTokens(tokens[state], 1),
                        position |-> Position(input, walk),
                        printed |-> TRUE]
    /\ pc' = "done"
    /\ UNCHANGED <<grammar, suspended, globals, locals, calls, command, overrun, ncalls>>

\* the value parse_command is about to return (line 365)
ReturnValue == json_output

\* lines 364-366: return to the caller; the frame of the call is gone
Return ==
    /\ pc = "done"
    /\ pc' = "idle"
    /\ ncalls' = ncalls + 1
    /\ input' = <<>>
    /\ walk' = 0
    /\ c' = 0
    /\ token' = NoToken
    /\ token_handled' = FALSE
    /\ beginning' = 0
    /\ str' = NULLSTR
    /\ calls' = <<>>
    /\ command' = <<>>
    /\ errormessage' = NoError
    /\ overrun' = FALSE
    /\ UNCHANGED <<grammar, suspended, globals>>

Next ==
    \/ /\ pc = "idle"
       /\ ncalls < MaxCalls
       /\ \E in \in Inputs : ParseCommand(in)
    \/ LoopHead
    \/ TryToken
    \/ NoTokenHandled
    \/ Return

Spec == Init /\ [][Next]_vars

(***************************************************************************)
(* Two invocations of parse_command whose steps interleave.  Each has its  *)
(* own locals (lines 203-207, 247); stack, state and json_output are       *)
(* static objects of the file (lines 75, 173-177) and exist once.          *)
(***************************************************************************)
\* the running invocation is suspended and the other one goes on: a thread
\* switch, or a handler that calls parse_command and is left again
Switch ==
    /\ pc \notin {"crashed", "exited"}
    /\ suspended' = frame
    /\ input' = suspended.input
    /\ walk' = suspended.walk
    /\ c' = suspended.c
    /\ token' = suspended.token
    /\ token_handled' = suspended.token_handled
    /\ beginning' = suspended.beginning
    /\ str' = suspended.str
    /\ pc' = suspended.pc
    /\ calls' = suspended.calls
    /\ command' = suspended.command
    /\ errormessage' = suspended.errormessage
    /\ overrun' = suspended.overrun
    /\ UNCHANGED <<grammar, globals, ncalls>>

InitConcurrent == Init /\ grammar \in {"MOVE_END", "LIST"}

\* the inputs of the two invocations
ConcurrentInputs ==
    IF grammar = "LIST"
    THEN {IN_A_B, IN_ONE_B}
    ELSE {IN_MOVE_LEFT, IN_MVE_LEFT}

NextConcurrent ==
    \/ /\ pc = "idle"
       /\ ncalls < MaxCalls
       /\ \E in \in ConcurrentInputs : ParseCommand(in)
    \/ LoopHead
    \/ TryToken
    \/ NoTokenHandled
    \/ Return
    \/ Switch

SpecConcurrent == InitConcurrent /\ [][NextConcurrent]_vars

(***************************************************************************)
(* Vocabulary of the properties.                                           *)
(***************************************************************************)
\* the live entries of a stack array, in slot order
RECURSIVE EntriesFrom(_, _)
EntriesFrom(stk, s) ==
    IF s > StackSize THEN <<>>
    ELSE (IF stk[s].identifier # NULL THEN << stk[s] >> ELSE <<>>)
         \o EntriesFrom(stk, s + 1)

Entries(stk) == EntriesFrom(stk, 1)

\* the calls of a log of dispatches: identifier and the stack the handler saw
CallsOf(log) == [i \in 1..Len(log) |-> log[i].call]

\* a captured text with every backslash that escapes a double quote removed
RECURSIVE Unescape(_)
Unescape(text) ==
    IF Len(text) = 0 THEN <<>>
    ELSE IF Len(text) >= 2 /\ text[1] = "\\" /\ text[2] = "\""
         THEN <<"\"">> \o Unescape(SubSeq(text, 3, Len(text)))
         ELSE <<text[1]>> \o Unescape(Tail(text))

\* the call has just matched a token (the step before was its transition)
JustHandled == pc = "loop" /\ token_handled

\* the call has printed the error message and not yet returned
Failed == pc = "done" /\ errormessage.printed

(***************************************************************************)
(* C1: every parse_command call starts with state = INITIAL, cursor 0, no  *)
(* pending result and an empty capture stack, also after a call that       *)
(* failed with captures pushed.  The code resets state and json_output     *)
(* only; the static stack keeps what a failed call left on it.             *)
(***************************************************************************)
C1_CallStartsFresh ==
    pc = "start" =>
        /\ state = INITIAL
        /\ walk = 0
        /\ json_output = JSON_NULL
        /\ stack = EmptyStack
        /\ \A id \in Identifiers : get_string(id) = NULLSTR

(***************************************************************************)
(* C2: a token that targets __CALL makes the driver invoke the dispatcher  *)
(* exactly once, with the captures pushed so far for this command; the     *)
(* result becomes the pending outcome, the capture stack is cleared and    *)
(* the state is INITIAL before the next token is matched.                  *)
(***************************************************************************)
C2_DispatchStep ==
    [][(pc = "tokens" /\ pc' = "loop" /\ token'.next_state = CALL) =>
            /\ Len(calls') = Len(calls) + 1
            /\ SubSeq(calls', 1, Len(calls)) = calls
            /\ LET rec == calls'[Len(calls')]
               IN  /\ rec.call.call_identifier = token'.call_identifier
                   /\ Entries(rec.call.stack) = rec.command
                   /\ json_output' = << rec.call >>
            /\ stack' = EmptyStack
            /\ state' = INITIAL]_vars

(***************************************************************************)
(* C3: capture stack isolation.  Immediately after a dispatch, or after a  *)
(* transition whose target is INITIAL, get_string returns NULL for every   *)
(* identifier.                                                             *)
(***************************************************************************)
C3_Isolation ==
    (JustHandled /\ token.next_state \in {CALL, INITIAL}) =>
        \A id \in Identifiers : get_string(id) = NULLSTR

\* a dispatch whose handler saw captures has just happened
C3_Witness ==
    /\ JustHandled
    /\ token.next_state = CALL
    /\ Len(calls) > 0
    /\ Entries(calls[Len(calls)].call.stack) # <<>>
    /\ \A id \in Identifiers : get_string(id) = NULLSTR

(***************************************************************************)
(* C4: whenever no candidate matches at some position, the value returned  *)
(* by parse_command is a failure and not a dispatch result, also when      *)
(* earlier sub-commands of the input were dispatched.  The code returns    *)
(* json_output, the result of the last dispatch.                           *)
(***************************************************************************)
C4_FailureIsReturned == Failed => ReturnValue = JSON_NULL

(***************************************************************************)
(* C5: parsing stops at the first position where no candidate matches:     *)
(* the failure branch changes neither state nor cursor nor stack,          *)
(* dispatches nothing, and the only step after it is the return.           *)
(***************************************************************************)
C5_StopsAtFirstError ==
    [][/\ (pc = "tokens" /\ c = Len(tokens[state])) =>
             /\ pc' = "done"
             /\ errormessage'.printed
             /\ UNCHANGED <<globals, walk, calls>>
       /\ Failed =>
             /\ pc' = "idle"
             /\ UNCHANGED globals]_vars

\* a call has failed in front of a separator that is followed by a complete
\* command
C5_Witness ==
    /\ Failed
    /\ \E k \in (walk + 1)..Len(input) :
        /\ input[k] = ";"
        /\ LET r == Parse(tokens, SubSeq(input, k + 1, Len(input)))
           IN  r.accepted /\ Len(r.calls) > 0

(***************************************************************************)
(* C6: for every input, also one with an unterminated double quote, the    *)
(* scanner never examines a position behind the input terminator and the   *)
(* cursor never advances past end-of-input.  The scan for the closing      *)
(* quote has no end-of-input check.                                        *)
(***************************************************************************)
C6_ScanStaysInInput ==
    /\ ~overrun
    /\ pc # "crashed"
    /\ walk <= Len(input) + 1

(***************************************************************************)
(* C7: quoted captures are exact inverses of escaping: the text captured   *)
(* from a quoted string or word is what stands between the quotes with     *)
(* every backslash that escapes a double quote removed.  The code copies   *)
(* the characters between the quotes as they are.                          *)
(***************************************************************************)
C7_QuotedCaptureUnescaped ==
    (/\ JustHandled
     /\ IsCapture(token)
     /\ ~overrun
     /\ Len(str) = walk - beginning - 1) =>
        str = Unescape(Slice(input, beginning, walk - 1))

(***************************************************************************)
(* C8: boundary handling is compositional: when cmd1 and cmd2 are each     *)
(* accepted on their own, one parse of cmd1;cmd2 performs the dispatches   *)
(* of a parse of cmd1 followed by those of a parse of cmd2, each started   *)
(* with an empty capture stack.                                            *)
(***************************************************************************)
C8_Compositional ==
    pc = "done" =>
        \A k \in 1..Len(input) :
            LET r1 == Parse(tokens, SubSeq(input, 1, k - 1))
                r2 == Parse(tokens, SubSeq(input, k + 1, Len(input)))
            IN  (input[k] = ";" /\ r1.accepted /\ r2.accepted) =>
                    CallsOf(calls) = CallsOf(r1.calls \o r2.calls)

(***************************************************************************)
(* C9: parsing "move left, move right" performs exactly two dispatches of  *)
(* move_action, the first seeing {direction: left}, the second             *)
(* {direction: right}, with the capture stack empty between them.          *)
(***************************************************************************)
LEFT == <<"l", "e", "f", "t">>
RIGHT == <<"r", "i", "g", "h", "t">>

TwoMoves ==
    /\ Len(calls) = 2
    /\ calls[1].call.call_identifier = 0
    /\ calls[2].call.call_identifier = 0
    /\ Entries(calls[1].call.stack)
         = << [identifier |-> "direction", str |-> LEFT] >>
    /\ Entries(calls[2].call.stack)
         = << [identifier |-> "direction", str |-> RIGHT] >>

\* as stated: with the grammar Initial -'move'-> MoveState,
\* MoveState -word-> __CALL and no other token
C9_TwoDispatches_NoOtherToken ==
    (grammar = "MOVE" /\ input = IN_LEFT_RIGHT /\ pc = "done") => TwoMoves

\* with that grammar and an end token in the initial state that returns to
\* the initial state
C9_TwoDispatches_WithEndToken ==
    (grammar = "MOVE_END" /\ input = IN_LEFT_RIGHT) =>
        /\ pc = "done" => (TwoMoves /\ ~errormessage.printed)
        /\ Len(calls) <= 2
        /\ Len(calls) >= 1 => stack = EmptyStack

C9_Witness ==
    /\ grammar = "MOVE_END"
    /\ input = IN_LEFT_RIGHT
    /\ pc = "done"
    /\ Len(calls) = 2

(***************************************************************************)
(* C10: the capture stack never holds more than 10 entries and push_string *)
(* never drops or overwrites a live entry: a push with a free slot leaves  *)
(* every entry as it is and adds exactly one, a push on a full stack ends  *)
(* the process and stores nothing.                                         *)
(***************************************************************************)
C10_PushKeepsOrExits ==
    [][LET tok == tokens[state][c + 1]
           m == Match(tok, input, walk)
           after == IF tok.next_state = CALL
                    THEN calls'[Len(calls')].call.stack
                    ELSE stack'
       IN  (/\ pc = "tokens"
            /\ c < Len(tokens[state])
            /\ m.handled
            /\ m.push
            /\ tok.next_state # INITIAL
            /\ pc' # "crashed") =>
               IF Cardinality(Occupied(stack)) < StackSize
               THEN /\ pc' = "loop"
                    /\ \A s \in Occupied(stack) : after[s] = stack[s]
                    /\ Cardinality(Occupied(after))
                         = Cardinality(Occupied(stack)) + 1
                    /\ \E s \in Occupied(after) \ Occupied(stack) :
                         after[s] = [identifier |-> tok.identifier,
                                     str |-> m.val]
               ELSE /\ pc' = "exited"
                    /\ UNCHANGED <<stack, calls, json_output>>]_vars

\* the eleventh push of one command has ended the process
C10_Witness ==
    /\ pc = "exited"
    /\ Cardinality(Occupied(stack)) = StackSize

(***************************************************************************)
(* C11: get_string returns the value of the latest push with the           *)
(* identifier asked for, and NULL when no entry has it, for every sequence *)
(* of pushes within one command, also one that pushes an identifier more   *)
(* than once.  The code scans from slot 0 and returns the first hit, the   *)
(* earliest push.                                                          *)
(***************************************************************************)
\* the value of the last push of identifier id in a list of pushes
LatestOf(pushes, id) ==
    LET hits == {k \in 1..Len(pushes) : pushes[k].identifier = id}
    IN  IF hits = {} THEN NULLSTR
        ELSE pushes[CHOOSE k \in hits : \A j \in hits : j <= k].str

C11_LookupLatest ==
    Entries(stack) = command =>
        \A id \in Identifiers : get_string(id) = LatestOf(command, id)

(***************************************************************************)
(* C12: two parse_command invocations whose steps interleave do not        *)
(* interfere: each performs the dispatches, with the captures, that it     *)
(* performs when it runs alone, and fails only when it fails alone.  The   *)
(* code keeps state, stack and json_output in static objects that both     *)
(* invocations read and write.                                             *)
(***************************************************************************)
C12_SameAsAlone ==
    pc = "done" =>
        LET alone == Parse(tokens, input)
        IN  /\ CallsOf(calls) = CallsOf(alone.calls)
            /\ errormessage.printed <=> ~alone.accepted

(***************************************************************************)
(* C13: parse_command always terminates.  Every iteration of the main loop *)
(* either matches a token and moves the cursor forward by at least one     *)
(* position, never behind offset len + 1, or prints the failure and leaves *)
(* the loop; the loop is left without a failure only after the end token   *)
(* has matched at the terminating 0-byte, with the cursor at len + 1.  A   *)
(* push on a full stack ends the process (see C10).                        *)
(***************************************************************************)
C13_LoopTerminates ==
    [][/\ pc' # "crashed"
       /\ (pc = "tokens" /\ pc' = "loop") =>
             /\ walk' >= walk + 1
             /\ walk' <= Len(input) + 1
       /\ (pc = "tokens" /\ pc' = "tokens") => c' = c + 1
       /\ (pc = "tokens" /\ pc' = "done") => errormessage'.printed
       /\ (pc = "loop" /\ pc' = "done") =>
             /\ walk = Len(input) + 1
             /\ IsEnd(token)]_vars

(***************************************************************************)
(* C14: matching is anchored and a failed candidate has no effect: when a  *)
(* candidate does not match, also a string or word capture of zero length  *)
(* such as the empty quoted string, the cursor and the capture stack are   *)
(* as before, so that the next candidate is tried at the same offset.  The *)
(* code steps over the opening quote before it finds the capture empty.    *)
(***************************************************************************)
C14_FailedCandidateNoEffect ==
    [][(pc = "tokens" /\ pc' = "tokens") =>
          /\ c' = c + 1
          /\ walk' = walk
          /\ UNCHANGED <<stack, state, json_output, calls>>]_vars

(***************************************************************************)
(* C15: first match wins.  In each iteration of the main loop the          *)
(* candidates of the current state are tried in the order of the grammar,  *)
(* starting with the first: a candidate is passed over only when it does   *)
(* not match at the cursor, and the first one that matches is applied (its *)
(* capture pushed, its transition taken) and ends the iteration, also when *)
(* a later candidate of the state would match as well.                     *)
(***************************************************************************)
C15_FirstMatchWins ==
    [][/\ (pc = "tokens" /\ c < Len(tokens[state])) =>
            LET tok == tokens[state][c + 1]
                m == Match(tok, input, walk)
            IN  /\ token' = tok
                /\ m.handled =>
                     /\ pc' \in {"loop", "exited", "crashed"}
                     /\ c' = c
                /\ (m.handled /\ pc' = "loop") =>
                     /\ token_handled'
                     /\ tok.next_state # CALL => state' = tok.next_state
                     /\ tok.next_state = CALL =>
                          /\ Len(calls') = Len(calls) + 1
                          /\ calls'[Len(calls')].call.call_identifier
                               = tok.call_identifier
                     /\ (m.push /\ tok.next_state \notin {CALL, INITIAL}) =>
                          /\ Len(command') = Len(command) + 1
                          /\ command'[Len(command')]
                               = [identifier |-> tok.identifier,
                                  str |-> m.val]
                     /\ ~m.push => Len(command') <= Len(command)
                /\ ~m.handled =>
                     /\ pc' = "tokens"
                     /\ c' = c + 1
                     /\ UNCHANGED <<stack, state, json_output, calls>>
       /\ (pc # "tokens" /\ pc' = "tokens") => c' = 0]_vars

\* the literal 'x', the first candidate of its state, has been applied to an
\* input at which the word token, the third candidate, matches as well
C15_Witness ==
    /\ JustHandled
    /\ grammar = "TEST"
    /\ c = 0
    /\ token = G_TEST["MOVE"][1]
    /\ state = "MOVE"
    /\ walk >= 1
    /\ Match(G_TEST["MOVE"][3], input, walk - 1).handled
    /\ Len(command) > 0
    /\ command[Len(command)].identifier = "flag"

(***************************************************************************)
(* C16: every captured value is a copy of a contiguous slice of the input: *)
(* the text stored by a string capture, a word capture or a literal with   *)
(* an identifier is the input between the cursor before the match and the  *)
(* cursor after it, without the surrounding quotes, so that a literal      *)
(* matched case-insensitively is stored as the input wrote it.  For a      *)
(* literal the code stores a copy of the token's name.                     *)
(***************************************************************************)
\* the entry in the highest occupied slot of a stack array
LastEntry(stk) == Entries(stk)[Len(Entries(stk))]

C16_CaptureIsInputSlice ==
    [][(/\ pc = "tokens"
        /\ pc' = "loop"
        /\ token'.identifier # NULL
        /\ token'.next_state # INITIAL
        /\ ~overrun') =>
            LET seen == IF token'.next_state = CALL
                        THEN calls'[Len(calls')].call.stack
                        ELSE stack'
                quoted == IsCapture(token') /\ At(input, walk) = "\""
                expected == IF quoted
                            THEN Slice(input, walk + 1, walk' - 1)
                            ELSE Slice(input, walk, walk')
            IN  /\ Entries(seen) # <<>>
                /\ LastEntry(seen).identifier = token'.identifier
                /\ LastEntry(seen).str = expected]_vars

(***************************************************************************)
(* C17: an unquoted word capture is not empty and holds no space, tab,     *)
(* ']', ',' or ';': it ends exactly before the first of them or at the end *)
(* of the input.  An unquoted string capture holds no ',' and no ';'.  The *)
(* delimiter is not consumed by the capture.                               *)
(***************************************************************************)
WordDelimiters == {" ", "\t", "]", ",", ";"}
StringDelimiters == {",", ";"}

C17_UnquotedCapture ==
    [][(/\ pc = "tokens"
        /\ pc' = "loop"
        /\ IsCapture(token')
        /\ At(input, walk) # "\"") =>
            LET delims == IF token'.name = NAME_WORD
                          THEN WordDelimiters
                          ELSE StringDelimiters
            IN  /\ Len(str') >= 1
                /\ \A k \in 1..Len(str') : str'[k] \notin delims
                /\ str' = Slice(input, walk, walk')
                /\ walk' = walk + Len(str')
                /\ walk' <= Len(input)
                /\ walk' < Len(input) => input[walk' + 1] \in delims
                /\ token'.identifier # NULL =>
                     [identifier |-> token'.identifier, str |-> str']
                       = (IF token'.next_state = CALL
                          THEN LastEntry(calls'[Len(calls')].call.stack)
                          ELSE LastEntry(stack'))]_vars

\* a word capture has ended before a comma
C17_Witness ==
    /\ JustHandled
    /\ token.name = NAME_WORD
    /\ ~overrun
    /\ At(input, beginning) # "\""
    /\ beginning >= 1
    /\ At(input, beginning - 1) # "\""
    /\ str = <<"t">>
    /\ walk = beginning + 1
    /\ At(input, walk) = ","

(***************************************************************************)
(* C18: on a parse failure the diagnostic names every candidate of the     *)
(* state that was current when matching failed, in grammar order (a        *)
(* literal as 'text', any other token as <name>), and marks with '^' the   *)
(* columns from the offset at which those candidates were tried, the       *)
(* cursor after the whitespace skip, to the end of the input, all earlier  *)
(* columns being spaces.  With Initial -> 'move' the input "mve left"      *)
(* fails at offset 0 with the candidate 'move'.                            *)
(***************************************************************************)
\* the offset at which the iteration that finds no match starts to try its
\* candidates, -1 when the parse has no such iteration
RECURSIVE FailureOffset(_, _, _, _)
FailureOffset(table, in, w, st) ==
    IF w > Len(in) THEN -1
    ELSE LET at == SkipWs(in, w)
             f == FirstMatch(table[st], in, at, 1)
         IN  IF ~f.found THEN at
             ELSE IF f.m.over THEN -1
             ELSE FailureOffset(table, in, f.walk,
                                next_state(f.tok, st, EmptyStack, JSON_NULL,
                                           <<>>, <<>>).state)

\* the names of the tokens of a state as the message shows them
Rendered(toks) ==
    [k \in 1..Len(toks) |->
        IF toks[k].name[1] = "'"
        THEN toks[k].name \o <<"'">>
        ELSE <<"<">> \o toks[k].name \o <<">">>]

RECURSIVE Joined(_, _)
Joined(names, k) ==
    IF k > Len(names) THEN <<>>
    ELSE IF k = Len(names) THEN names[k]
    ELSE names[k] \o <<",", " ">> \o Joined(names, k + 1)

C18_Diagnostic ==
    (Failed /\ ~overrun) =>
        LET at == FailureOffset(tokens, input, 0, INITIAL)
        IN  /\ at >= 0
            /\ errormessage.possible_tokens = Joined(Rendered(tokens[state]), 1)
            /\ Len(errormessage.position) = Len(input)
            /\ \A k \in 1..Len(input) :
                 errormessage.position[k] = (IF k - 1 >= at THEN "^" ELSE " ")
            /\ (grammar = "MOVE" /\ input = IN_MVE_LEFT) =>
                 /\ errormessage.possible_tokens
                      = <<"'", "m", "o", "v", "e", "'">>
                 /\ errormessage.position
                      = <<"^", "^", "^", "^", "^", "^", "^", "^">>

(***************************************************************************)
(* C19: the end token matches only when the character at the cursor is the *)
(* input terminator, ',' or ';'; it consumes exactly that one position,    *)
(* pushes nothing and takes its transition.  After an end token that       *)
(* returns to INITIAL at ',' or ';' the next sub-command is matched from   *)
(* the character after the separator on, with an empty capture stack.      *)
(***************************************************************************)
C19_EndToken ==
    [][(/\ pc = "tokens"
        /\ c < Len(tokens[state])
        /\ tokens[state][c + 1].name = NAME_END) =>
            LET tok == tokens[state][c + 1]
                here == IF walk < Len(input) THEN input[walk + 1] ELSE NUL
            IN  IF here \in {NUL, ",", ";"}
                THEN /\ pc' = "loop"
                     /\ token_handled'
                     /\ walk' = walk + 1
                     /\ IF tok.next_state = CALL
                        THEN /\ Len(calls') = Len(calls) + 1
                             /\ calls'[Len(calls')].call.call_identifier
                                  = tok.call_identifier
                             /\ calls'[Len(calls')].call.stack = stack
                        ELSE /\ state' = tok.next_state
                             /\ calls' = calls
                             /\ stack' \in {stack, EmptyStack}
                     /\ tok.next_state = INITIAL =>
                          /\ stack' = EmptyStack
                          /\ \A id \in Identifiers :
                               Lookup(stack', id) = NULLSTR
                ELSE /\ pc' = "tokens"
                     /\ c' = c + 1
                     /\ walk' = walk
                     /\ UNCHANGED <<stack, state, calls>>
       /\ (pc = "loop" /\ IsEnd(token) /\ walk <= Len(input)) =>
            /\ pc' = "tokens"
            /\ walk' = SkipWs(input, walk)
            /\ UNCHANGED <<stack, state>>]_vars

\* an end token has returned to INITIAL at a ';' that follows a dispatched
\* command and is followed by more input
C19_Witness ==
    /\ JustHandled
    /\ IsEnd(token)
    /\ token.next_state = INITIAL
    /\ state = INITIAL
    /\ walk >= 1
    /\ walk < Len(input)
    /\ input[walk] = ";"
    /\ Len(calls) >= 1
    /\ stack = EmptyStack

(***************************************************************************)
(* C20: in every reachable state the occupied slots of the capture stack   *)
(* form a contiguous prefix of the 10-slot array: slot i occupied implies  *)
(* every slot j < i occupied, under any sequence of push_string and        *)
(* clear_stack.  Hence get_string, which stops at the first free slot,     *)
(* never misses a live entry.                                              *)
(***************************************************************************)
IsPrefix(stk) ==
    \A i \in Occupied(stk) : \A j \in 1..(i - 1) : j \in Occupied(stk)

C20_OccupiedIsPrefix ==
    /\ IsPrefix(stack)
    /\ \A k \in 1..Len(calls) : IsPrefix(calls[k].call.stack)
    /\ \A i \in Occupied(stack) : get_string(stack[i].identifier) # NULLSTR
    /\ Cardinality(Occupied(stack)) <= StackSize

\* a command in flight has pushed several captures on top of what an
\* earlier call has left
C20_Witness ==
    /\ ncalls >= 1
    /\ pc = "loop"
    /\ Len(command) >= 2
    /\ Cardinality(Occupied(stack)) > Len(command)
    /\ IsPrefix(stack)

====
